---------------------------- MODULE Spec2Model ----------------------------
(***************************************************************************)
(* Model of src/app.py (Haru Blog Tool): the identity gate, the WordPress  *)
(* pagination loop, the Google Sheets write and the SNS schedule           *)
(* generation, driven by the button presses of one Streamlit session.      *)
(*                                                                         *)
(* Text is a sequence of pieces (Python str concatenation is \o).  The     *)
(* source's Japanese column names and messages are written in ASCII here:  *)
(*   post_id/title/slug/URL/status/published/modified/char_count stand for *)
(*   the eight DataFrame columns of lines 122-129, and ErrMarker stands    *)
(*   for the "[AI...error] " prefix of line 202.                           *)
(***************************************************************************)
EXTENDS Integers, Sequences, FiniteSets, TLC

\* ------------------------------------------------------------------ bounds
\* Largest X-WP-TotalPages value the modelled server advertises.
MaxPages == 2
\* Largest day count entered in the number_input (the widget allows 365).
MaxDays == 2
\* min_value of the day-count number_input.
MinDays == 1

\* ------------------------------------------------------------ environment
\* Posts the modelled WordPress server can return.  content.kind is
\* "dict" (a {"rendered": ...} object), "missing" (no "content" key) or
\* "null" ("content": null, on which p.get("content", {}).get raises).
PostHello ==
    [id |-> 7, title |-> <<"Hello">>, slug |-> <<"hello">>,
     link |-> <<"https://blog/hello">>, status |-> <<"publish">>,
     date |-> <<"2024-01-01T09:00:00">>, modified |-> <<"2024-01-02T09:00:00">>,
     content |-> [kind |-> "dict",
                  rendered |-> <<" ", "<", "p", ">", "H", "i", "<", ">", "<", "/",
                                 "p", ">", " ">>]]

PostWorld ==
    [id |-> 12, title |-> <<"World">>, slug |-> <<"world">>,
     link |-> <<"https://blog/world">>, status |-> <<"draft">>,
     date |-> <<"2024-02-01T09:00:00">>, modified |-> <<"2024-02-03T09:00:00">>,
     content |-> [kind |-> "missing", rendered |-> <<>>]]

PostBroken ==
    [id |-> 13, title |-> <<"Broken">>, slug |-> <<"broken">>,
     link |-> <<"https://blog/broken">>, status |-> <<"publish">>,
     date |-> <<"2024-03-01T09:00:00">>, modified |-> <<"2024-03-01T09:00:00">>,
     content |-> [kind |-> "null", rendered |-> <<>>]]

\* Bodies r.json() can yield for one page.
PageBodies ==
    { <<>>, <<PostHello>>, <<PostHello, PostWorld>>, <<PostBroken>> }

\* The X-WP-TotalPages header: absent, a decimal number, or not a number.
TotalHeaders ==
    { [kind |-> "none", val |-> 0], [kind |-> "bad", val |-> 0] }
      \cup { [kind |-> "int", val |-> n] : n \in 1..MaxPages }

NoBody == [ok |-> TRUE, posts |-> <<>>]
NoHeader == [kind |-> "none", val |-> 0]

\* What one requests.get can produce: an exception, a non-200 status, a 200
\* whose body is not JSON, or a 200 page with a body and a header.
Responses ==
    { [kind |-> "raise", status |-> 0, body |-> NoBody, total |-> NoHeader] }
      \cup { [kind |-> "http", status |-> s, body |-> NoBody, total |-> NoHeader]
               : s \in {400, 500} }
      \cup { [kind |-> "http", status |-> 200,
              body |-> [ok |-> FALSE, posts |-> <<>>], total |-> NoHeader] }
      \cup { [kind |-> "http", status |-> 200,
              body |-> [ok |-> TRUE, posts |-> b], total |-> h]
               : b \in PageBodies, h \in TotalHeaders }

\* lastResp before the first request of a fetch.
NoResponse == [kind |-> "nothing", status |-> 0, body |-> NoBody, total |-> NoHeader]

\* Claims a token payload may hold (a dict, as a set of key/value pairs).
ClaimPairs == { <<"email", "haru@example.com">> }

\* The ?token= query parameter: absent, empty, not a JWT, or a well-formed JWT
\* carrying any claim set (its signature is whatever the sender chose).
Tokens ==
    { [kind |-> k, claims |-> {}] : k \in {"absent", "empty", "malformed"} }
      \cup { [kind |-> "jwt", claims |-> c] : c \in SUBSET ClaimPairs }

\* The OpenAI API key field: empty (the widget's default) or a key.
ApiKeys == { <<>>, <<"sk-key">> }
Tones == { "polite", "casual" }
\* Outcome of one chat.completions.create call.
ApiOutcomes == { "ok", "fail" }
\* Faults the Google side can raise inside write_to_sheets.
SheetFaults == { "none", "auth", "lookup", "add", "clear", "update" }

\* Content the target worksheet may hold before the session: rows one column
\* wider than a table of posts.
OldRow == [j \in 1..9 |-> <<"old">>]
OldGrid == [i \in 1..2 |-> OldRow]
Worksheets == { [exists |-> FALSE, cells |-> <<>>], [exists |-> TRUE, cells |-> OldGrid] }


VARIABLES
    token,        \* the ?token= query parameter of the page load
    screen,       \* what the last script run rendered: "none", "login", "main"
    sidebar,      \* the "logged in as" text of the sidebar
    posts,        \* st.session_state.posts: <<>> (no such key) or <<df>>
    ws,           \* the target worksheet of the spreadsheet
    pc,           \* "idle", "fetch" (inside the while loop), "gen" (inside the for loops)
    page,         \* fetch_wp_posts: page
    all_posts,    \* fetch_wp_posts: all_posts
    requested,    \* the page numbers passed to requests.get, in call order
    lastResp,     \* the response to the latest request
    received,     \* history: the bodies of the 200 pages received, in order
    fetchResult,  \* what fetch_wp_posts returned
    syncResult,   \* what write_to_sheets was given and returned
    genArgs,      \* the arguments of generate_sns_schedule
    d,            \* generate_sns_schedule: d
    t,            \* generate_sns_schedule: position of t in time_slots
    post_iter,    \* generate_sns_schedule: position of the cycle iterator
    records,      \* generate_sns_schedule: records
    apiCalls,     \* the prompts sent to chat.completions.create, in call order
    apiOutcomes,  \* history: the outcome of each call, in call order
    genResult,    \* "none", "running", "returned" (df_csv is records), "raised"
    lastOk        \* history: the table of the session's latest successful fetch

vars ==
    << token, screen, sidebar, posts, ws, pc, page, all_posts, requested,
       lastResp, received, fetchResult, syncResult, genArgs, d, t, post_iter, records,
       apiCalls, apiOutcomes, genResult, lastOk >>

fetchVars == << page, all_posts, requested, lastResp, received, fetchResult >>
genVars == << genArgs, d, t, post_iter, records, apiCalls, apiOutcomes, genResult >>

\* ---------------------------------------------------------------- helpers
Min(S) == CHOOSE x \in S : \A y \in S : x <= y

Digits == << <<"0">>, <<"1">>, <<"2">>, <<"3">>, <<"4">>, <<"5">>, <<"6">>, <<"7">>,
             <<"8">>, <<"9">> >>

\* Python str(n) for n >= 0: the decimal digits.
RECURSIVE IntToStr(_)
IntToStr(n) ==
    IF n < 10 THEN Digits[n + 1] ELSE IntToStr(n \div 10) \o Digits[(n % 10) + 1]

\* Index of the first ">" after position i, or 0.
TagEnd(s, i) ==
    LET js == { j \in (i + 1)..Len(s) : s[j] = ">" }
    IN  IF js = {} THEN 0 ELSE Min(js)

\* re.sub(r"<[^>]+>", "", s) from position i on: a "<" starts a match when the
\* next ">" is at least two characters away.
RECURSIVE SubTags(_, _)
SubTags(s, i) ==
    IF i > Len(s) THEN <<>>
    ELSE IF s[i] = "<" /\ TagEnd(s, i) > i + 1
         THEN SubTags(s, TagEnd(s, i) + 1)
         ELSE <<s[i]>> \o SubTags(s, i + 1)

IsSpace(c) == c \in { " ", "\n", "\t" }

RECURSIVE LStrip(_)
LStrip(s) == IF s # <<>> /\ IsSpace(Head(s)) THEN LStrip(Tail(s)) ELSE s

RECURSIVE RStrip(_)
RStrip(s) ==
    IF s # <<>> /\ IsSpace(s[Len(s)]) THEN RStrip(SubSeq(s, 1, Len(s) - 1)) ELSE s

strip_html(html) == LStrip(RStrip(SubTags(html, 1)))

\* p.get("content", {}).get("rendered", "") ; raises on "content": null.
ContentRaises(p) == p.content.kind = "null"
ContentHtml(p) == IF p.content.kind = "dict" THEN p.content.rendered ELSE <<>>

\* One element of rows (lines 116-130).
Row(p) ==
    [id |-> p.id, title |-> p.title, slug |-> p.slug, url |-> p.link,
     status |-> p.status, date |-> p.date, modified |-> p.modified,
     chars |-> Len(strip_html(ContentHtml(p)))]

ColumnNames ==
    << "post_id", "title", "slug", "URL", "status", "published", "modified",
       "char_count" >>

\* pd.DataFrame(rows): a list of dicts gives their keys as columns, an empty
\* list gives a frame with no columns.
DataFrame(rows) ==
    [columns |-> IF rows = <<>> THEN <<>> ELSE ColumnNames, rows |-> rows]

\* ----------------------------------------------------------- identity gate
None == [isNone |-> TRUE, claims |-> {}]
Some(c) == [isNone |-> FALSE, claims |-> c]

\* Python truthiness of the token string and of the decoded value.
TokenFalsy(tok) == tok.kind \in {"absent", "empty"}
Falsy(user) == user.isNone \/ user.claims = {}

\* jwt.decode with verify_signature False: a malformed token raises, any
\* well-formed one yields its payload.
verify_firebase_token(id_token) ==
    IF TokenFalsy(id_token) THEN None
    ELSE IF id_token.kind = "malformed" THEN None
    ELSE Some(id_token.claims)

\* Lines 277-287: which screen the script run renders.
AuthFlow(tok) ==
    IF TokenFalsy(tok) THEN "login"
    ELSE IF Falsy(verify_firebase_token(tok)) THEN "login"
    ELSE "main"

\* user.get('email', default) of line 220.
SidebarText(user) ==
    IF \E pr \in user.claims : pr[1] = "email"
    THEN (CHOOSE pr \in user.claims : pr[1] = "email")[2]
    ELSE "user"

NoArgs ==
    [df |-> DataFrame(<<>>), days |-> 0, tone |-> "polite", api_key |-> <<>>]

BlankFetch ==
    /\ page' = 0
    /\ all_posts' = <<>>
    /\ requested' = <<>>
    /\ lastResp' = NoResponse
    /\ received' = <<>>
    /\ fetchResult' = [status |-> "none", df |-> DataFrame(<<>>)]

NoSync ==
    [called |-> FALSE, ret |-> FALSE, raised |-> FALSE, fault |-> "none",
     arg |-> DataFrame(<<>>), before |-> [exists |-> FALSE, cells |-> <<>>]]

BlankSync ==
    syncResult' = NoSync

BlankGen ==
    /\ genArgs' = NoArgs
    /\ d' = 0
    /\ t' = 1
    /\ post_iter' = 0
    /\ records' = <<>>
    /\ apiCalls' = <<>>
    /\ apiOutcomes' = <<>>
    /\ genResult' = "none"

\* A page load with some ?token=: a new session (empty session_state) and one
\* script run, which ends in the login screen or in show_main_app.
Load(tok) ==
    /\ pc = "idle"
    /\ token' = tok
    /\ screen' = AuthFlow(tok)
    /\ sidebar' = IF AuthFlow(tok) = "main"
                  THEN SidebarText(verify_firebase_token(tok)) ELSE ""
    /\ posts' = <<>>
    /\ lastOk' = <<>>
    /\ pc' = "idle"
    /\ BlankFetch /\ BlankSync /\ BlankGen
    /\ UNCHANGED ws

\* A button exists only on the main screen, and its press reruns the script,
\* which passes the gate again with the same token.
CanPress == pc = "idle" /\ screen = "main" /\ AuthFlow(token) = "main"

\* ------------------------------------------------------------ content fetch
\* Mutant of Breaks: the page count is compared with > instead of >=.
BreaksLate(r, pg) ==
    /\ r.kind = "http"
    /\ \/ r.status = 400
       \/ /\ r.status = 200
          /\ r.body.ok
          /\ \/ r.body.posts = <<>>
             \/ r.total.kind = "none"
             \/ r.total.kind = "int" /\ pg > r.total.val

\* The response ends the loop by a break (lines 93-94, 100-101, 105-107).
Breaks(r, pg) ==
    /\ r.kind = "http"
    /\ \/ r.status = 400
       \/ /\ r.status = 200
          /\ r.body.ok
          /\ \/ r.body.posts = <<>>
             \/ r.total.kind = "none"
             \/ r.total.kind = "int" /\ pg >= r.total.val

\* The response ends fetch_wp_posts with None from inside the loop: an
\* exception of requests.get, r.json() or int(), or a status that is neither
\* 200 nor 400 (lines 95-97, 134-136).
FailsInLoop(r) ==
    \/ r.kind = "raise"
    \/ r.kind = "http" /\ r.status \notin {200, 400}
    \/ r.kind = "http" /\ r.status = 200 /\ ~r.body.ok
    \/ r.kind = "http" /\ r.status = 200 /\ r.body.ok /\ r.body.posts # <<>>
         /\ r.total.kind = "bad"

\* Mutant of Extended: the page is put in front of the earlier pages.
ExtendedFront(acc, r) ==
    IF r.kind = "http" /\ r.status = 200 /\ r.body.ok THEN r.body.posts \o acc ELSE acc

\* all_posts after the response (line 103): extended unless the loop was left
\* before the extend.
Extended(acc, r) ==
    IF r.kind = "http" /\ r.status = 200 /\ r.body.ok THEN acc \o r.body.posts ELSE acc

\* Lines 115-132: the rows of all_posts, or None when building one raises.
BuildTable(acc) ==
    IF \E i \in 1..Len(acc) : ContentRaises(acc[i])
    THEN [status |-> "failed", df |-> DataFrame(<<>>)]
    ELSE [status |-> "ok", df |-> DataFrame([i \in 1..Len(acc) |-> Row(acc[i])])]

\* Mutant of StoreResult: the slot is assigned whatever the fetch returned.
StoreResultAlways(slot, res) == <<res.df>>

\* Lines 235-236: st.session_state.posts = df when df is not None.
StoreResult(slot, res) == IF res.status = "ok" THEN <<res.df>> ELSE slot

\* Press of the fetch button: fetch_wp_posts starts with page 1.
PressFetch ==
    /\ CanPress
    /\ pc' = "fetch"
    /\ page' = 1
    /\ all_posts' = <<>>
    /\ requested' = <<>>
    /\ lastResp' = NoResponse
    /\ received' = <<>>
    /\ fetchResult' = [status |-> "running", df |-> DataFrame(<<>>)]
    /\ BlankSync /\ BlankGen
    /\ UNCHANGED << token, screen, sidebar, posts, ws, lastOk >>

\* One iteration of the while loop with the server's response r; on a break
\* or a failure the rest of the handler runs too (rows, return, session slot).
FetchPage(r) ==
    /\ pc = "fetch"
    /\ requested' = Append(requested, page)
    /\ lastResp' = r
    /\ received' = IF r.kind = "http" /\ r.status = 200 /\ r.body.ok
                   THEN Append(received, r.body.posts) ELSE received
    /\ IF FailsInLoop(r)
       THEN /\ all_posts' = IF r.kind = "http" /\ r.status = 200
                            THEN Extended(all_posts, r) ELSE all_posts
            /\ page' = page
            /\ fetchResult' = [status |-> "failed", df |-> DataFrame(<<>>)]
            /\ pc' = "idle"
       ELSE IF Breaks(r, page)
       THEN /\ all_posts' = Extended(all_posts, r)
            /\ page' = page
            /\ fetchResult' = BuildTable(Extended(all_posts, r))
            /\ pc' = "idle"
       ELSE /\ all_posts' = Extended(all_posts, r)
            /\ page' = page + 1
            /\ fetchResult' = fetchResult
            /\ pc' = "fetch"
    /\ posts' = IF pc' = "idle" THEN StoreResult(posts, fetchResult') ELSE posts
    /\ lastOk' = IF pc' = "idle" /\ fetchResult'.status = "ok"
                 THEN <<fetchResult'.df>> ELSE lastOk
    /\ UNCHANGED << token, screen, sidebar, ws, syncResult >>
    /\ UNCHANGED genVars

\* --------------------------------------------------------- spreadsheet sync
\* A worksheet's cells are rows of texts, without trailing empty cells and
\* trailing empty rows; a cleared worksheet is <<>>.
RECURSIVE TrimRow(_)
TrimRow(r) ==
    IF r # <<>> /\ r[Len(r)] = <<>> THEN TrimRow(SubSeq(r, 1, Len(r) - 1)) ELSE r

RECURSIVE TrimRows(_)
TrimRows(g) ==
    IF g # <<>> /\ g[Len(g)] = <<>> THEN TrimRows(SubSeq(g, 1, Len(g) - 1)) ELSE g

Normalise(g) == TrimRows([i \in 1..Len(g) |-> TrimRow(g[i])])

Max2(a, b) == IF a >= b THEN a ELSE b

CellAt(g, i, j) == IF i <= Len(g) /\ j <= Len(g[i]) THEN g[i][j] ELSE <<>>
WidthAt(g, i) == IF i <= Len(g) THEN Len(g[i]) ELSE 0

\* ws.update("A1", values): the cells of the range take the values, every
\* other cell keeps what it held.
Update(cells, values) ==
    Normalise([i \in 1..Max2(Len(cells), Len(values)) |->
                 [j \in 1..Max2(WidthAt(cells, i), WidthAt(values, i)) |->
                    IF i <= Len(values) /\ j <= Len(values[i])
                    THEN values[i][j] ELSE CellAt(cells, i, j)]])

\* Mutant of Clear: the worksheet is not cleared.
ClearNothing(cells) == cells

\* ws.clear()
Clear(cells) == <<>>

\* One row of df.astype(str).values.tolist(): str() of each value, in column
\* order.
StrRow(r) ==
    << IntToStr(r.id), r.title, r.slug, r.url, r.status, r.date, r.modified,
       IntToStr(r.chars) >>

\* [df.columns.tolist()] + df.astype(str).values.tolist() (line 160).
SheetValues(df) ==
    << [j \in 1..Len(df.columns) |-> <<df.columns[j]>>] >>
      \o [i \in 1..Len(df.rows) |-> StrRow(df.rows[i])]

\* Mutant of UpdateFailed: the content before the call is put back.
UpdateFailedRollback(w, cleared) == w

\* The worksheet after ws.update raised: what ws.clear left, since nothing
\* restores w, the content before the call (lines 159-165).
UpdateFailed(w, cleared) == cleared

\* The try block of lines 144-161 under the fault the Google side injects:
\* exc tells whether an exception left the block, w is the worksheet then.
WriteBody(df, w, fault) ==
    IF fault = "auth" THEN [exc |-> TRUE, w |-> w]
    ELSE IF ~(w.exists /\ fault # "lookup") /\ (w.exists \/ fault = "add")
         THEN [exc |-> TRUE, w |-> w]
    ELSE LET opened == IF w.exists THEN w ELSE [exists |-> TRUE, cells |-> <<>>]
         IN  IF fault = "clear" THEN [exc |-> TRUE, w |-> opened]
             ELSE LET cleared == [opened EXCEPT !.cells = Clear(opened.cells)]
                  IN  IF fault = "update"
                      THEN [exc |-> TRUE, w |-> UpdateFailed(opened, cleared)]
                      ELSE [exc |-> FALSE,
                            w |-> [cleared EXCEPT
                                     !.cells = Update(cleared.cells, SheetValues(df))]]

\* write_to_sheets: the except of lines 163-165 turns an exception into False.
write_to_sheets(df, w, fault) ==
    LET b == WriteBody(df, w, fault)
    IN  [ret |-> ~b.exc, raised |-> FALSE, w |-> b.w]

\* Press of the Sheets button (lines 249-252); tab 2 shows it only when the
\* session holds posts.
PressSync(fault) ==
    /\ CanPress
    /\ posts # <<>>
    /\ LET res == write_to_sheets(posts[1], ws, fault)
       IN  /\ ws' = res.w
           /\ syncResult' = [called |-> TRUE, ret |-> res.ret, raised |-> res.raised,
                             fault |-> fault, arg |-> posts[1], before |-> ws]
    /\ pc' = "idle"
    /\ BlankFetch /\ BlankGen
    /\ UNCHANGED << token, screen, sidebar, posts, lastOk >>

\* ------------------------------------------------------ schedule generation
time_slots == << "09:00", "12:00", "20:00" >>

ErrMarker == << "[AI generation error] " >>
\* The completion's message content, before .strip().
ApiContent == << " ", "caption #a #b #c", "\n" >>

ToneText(tone) == IF tone = "polite" THEN "polite calm tone" ELSE "casual friendly tone"

\* Mutant of HasClient: a client is created whatever the key.
HasClientAlways(api_key) == TRUE

\* client = OpenAI(api_key=api_key) if api_key else None
HasClient(api_key) == api_key # <<>>

\* Mutant of CycleNext: the iterator stays on the last item instead of
\* starting over.
CycleNextNoWrap(rows, pos) ==
    [p |-> rows[pos + 1], pos |-> IF pos + 1 < Len(rows) THEN pos + 1 ELSE pos]

\* next(post_iter) on itertools.cycle(rows), for non-empty rows: the item at
\* the iterator's position, and the position after it.
CycleNext(rows, pos) == [p |-> rows[pos + 1], pos |-> (pos + 1) % Len(rows)]

\* Mutant of EntryText: a failed call leaves the bare error marker.
EntryTextBare(api_key, outcome, p) ==
    IF HasClient(api_key)
    THEN IF outcome = "ok" THEN LStrip(RStrip(ApiContent)) ELSE ErrMarker
    ELSE p.title \o <<"\n">> \o p.url

\* Lines 184-204: the text of one entry; outcome is the outcome of the call
\* the slot makes when there is a client.
EntryText(api_key, outcome, p) ==
    IF HasClient(api_key)
    THEN IF outcome = "ok" THEN LStrip(RStrip(ApiContent)) ELSE ErrMarker \o p.title
    ELSE p.title \o <<"\n">> \o p.url

\* Lines 206-211: date is today + d days.
Entry(day, slot, p, text) ==
    [datetime |-> [day |-> day, time |-> time_slots[slot]],
     title |-> p.title, url |-> p.url, text |-> text]

\* The prompts sent by one slot (lines 186-199): one when there is a client.
SlotCalls(api_key, tone, p) ==
    IF HasClient(api_key)
    THEN << [title |-> p.title, url |-> p.url, tone_text |-> ToneText(tone)] >>
    ELSE << >>

\* Press of the CSV button (lines 260-265); tab 3 shows it only when the
\* session holds posts.  generate_sns_schedule starts.
PressGen(days, tone, api_key) ==
    /\ CanPress
    /\ posts # <<>>
    /\ genArgs' = [df |-> posts[1], days |-> days, tone |-> tone, api_key |-> api_key]
    /\ d' = 0
    /\ t' = 1
    /\ post_iter' = 0
    /\ records' = <<>>
    /\ apiCalls' = <<>>
    /\ apiOutcomes' = <<>>
    /\ genResult' = "running"
    /\ pc' = "gen"
    /\ BlankFetch /\ BlankSync
    /\ UNCHANGED << token, screen, sidebar, posts, ws, lastOk >>

\* One pass of the inner loop body (day d, slot t; lines 182-211) with the
\* outcome of the API call it makes when there is a client.  next() on an
\* empty cycle raises StopIteration, which nothing catches; the last pass also
\* returns the DataFrame of records (line 213), offered for download.
GenSlot(outcome) ==
    /\ pc = "gen"
    /\ IF genArgs.df.rows = <<>>
       THEN /\ genResult' = "raised"
            /\ pc' = "idle"
            /\ UNCHANGED << d, t, post_iter, records, apiCalls, apiOutcomes >>
       ELSE LET nx == CycleNext(genArgs.df.rows, post_iter)
                last == t = Len(time_slots) /\ d + 1 >= genArgs.days
            IN  /\ post_iter' = nx.pos
                /\ apiCalls' = apiCalls \o SlotCalls(genArgs.api_key, genArgs.tone, nx.p)
                /\ apiOutcomes' = IF HasClient(genArgs.api_key)
                                  THEN Append(apiOutcomes, outcome) ELSE apiOutcomes
                /\ records' = Append(records,
                                     Entry(d, t, nx.p,
                                           EntryText(genArgs.api_key, outcome, nx.p)))
                /\ t' = IF t = Len(time_slots) THEN 1 ELSE t + 1
                /\ d' = IF t = Len(time_slots) THEN d + 1 ELSE d
                /\ genResult' = IF last THEN "returned" ELSE "running"
                /\ pc' = IF last THEN "idle" ELSE "gen"
    /\ UNCHANGED << token, screen, sidebar, posts, ws, lastOk, genArgs, syncResult >>
    /\ UNCHANGED fetchVars

\* ------------------------------------------------------------ specifications
\* Before any page load: nothing rendered, an empty session, and a target
\* worksheet that does not exist yet or holds older content.
Init ==
    /\ token = [kind |-> "absent", claims |-> {}]
    /\ screen = "none"
    /\ sidebar = ""
    /\ posts = <<>>
    /\ lastOk = <<>>
    /\ ws \in Worksheets
    /\ pc = "idle"
    /\ page = 0
    /\ all_posts = <<>>
    /\ requested = <<>>
    /\ lastResp = NoResponse
    /\ received = <<>>
    /\ fetchResult = [status |-> "none", df |-> DataFrame(<<>>)]
    /\ syncResult = NoSync
    /\ genArgs = NoArgs
    /\ d = 0
    /\ t = 1
    /\ post_iter = 0
    /\ records = <<>>
    /\ apiCalls = <<>>
    /\ apiOutcomes = <<>>
    /\ genResult = "none"

DoLoad == \E tok \in Tokens : Load(tok)
DoFetchPage == \E r \in Responses : FetchPage(r)
DoSync == \E fault \in SheetFaults : PressSync(fault)
DoPressGen ==
    \E days \in MinDays..MaxDays, tone \in Tones, api_key \in ApiKeys :
        PressGen(days, tone, api_key)
\* Without a client no call is made and there is no outcome to choose.
DoGenSlot ==
    \E outcome \in ApiOutcomes :
        /\ HasClient(genArgs.api_key) \/ outcome = "ok"
        /\ GenSlot(outcome)

Next == DoLoad \/ PressFetch \/ DoFetchPage \/ DoSync \/ DoPressGen \/ DoGenSlot
Spec == Init /\ [][Next]_vars

\* The session restricted to the fetch stage.
NextFetch == DoLoad \/ PressFetch \/ DoFetchPage
SpecFetch == Init /\ [][NextFetch]_vars

\* The session restricted to fetch and spreadsheet sync.
NextSheets == DoLoad \/ PressFetch \/ DoFetchPage \/ DoSync
SpecSheets == Init /\ [][NextSheets]_vars

\* The session restricted to fetch and schedule generation.
NextGen == DoLoad \/ PressFetch \/ DoFetchPage \/ DoPressGen \/ DoGenSlot
SpecGen == Init /\ [][NextGen]_vars

\* The whole session with a generative-text API that answers every call.
DoGenSlotUp == GenSlot("ok")
NextSession ==
    DoLoad \/ PressFetch \/ DoFetchPage \/ DoSync \/ DoPressGen \/ DoGenSlotUp
SpecSession == Init /\ [][NextSession]_vars

\* ------------------------------------------------------------------ claims
Last(q) == q[Len(q)]

RECURSIVE Flatten(_)
Flatten(qs) == IF qs = <<>> THEN <<>> ELSE Head(qs) \o Flatten(Tail(qs))

\* The number a sequence of decimal digits denotes.
DigitValue(c) == CHOOSE n \in 0..9 : Digits[n + 1] = <<c>>
RECURSIVE ParseInt(_)
ParseInt(ds) ==
    IF Len(ds) = 1 THEN DigitValue(ds[1])
    ELSE 10 * ParseInt(SubSeq(ds, 1, Len(ds) - 1)) + DigitValue(ds[Len(ds)])

FetchDone == pc = "idle" /\ requested # <<>>

\* A response after which the loop must not request another page: a 400, an
\* empty page, or a 200 page that carries no page count or whose page index
\* has reached the advertised count.
StoppingResponse(r, pg) ==
    /\ r.kind = "http"
    /\ \/ r.status = 400
       \/ /\ r.status = 200
          /\ r.body.ok
          /\ \/ r.body.posts = <<>>
             \/ r.total.kind = "none"
             \/ r.total.kind = "int" /\ pg >= r.total.val

\* C1: the pages are requested in the order 1, 2, 3, ... with none requested
\* twice; while the loop runs the next page to request is the one after the
\* last requested; no page is requested after a stopping response (a 400, an
\* empty page, or a 200 page at or past the advertised total or without the
\* header), so no page beyond the largest advertised total is requested.
C1_PaginationStops ==
    /\ requested = [i \in 1..Len(requested) |-> i]
    /\ pc = "fetch" => page = Len(requested) + 1
    /\ (requested # <<>> /\ StoppingResponse(lastResp, Last(requested))) => pc # "fetch"
    /\ Len(requested) <= MaxPages

\* A fetch of two pages that the advertised total stopped.
C1_Witness ==
    /\ FetchDone
    /\ requested = <<1, 2>>
    /\ lastResp.status = 200
    /\ lastResp.total.kind = "int"
    /\ lastResp.body.posts # <<>>
    /\ fetchResult.status = "ok"

\* Building the rows, or reading the last response, raised an exception.
FetchRaised ==
    \/ lastResp.kind = "raise"
    \/ lastResp.kind = "http" /\ lastResp.status = 200 /\ ~lastResp.body.ok
    \/ lastResp.kind = "http" /\ lastResp.status = 200 /\ lastResp.body.ok
         /\ lastResp.body.posts # <<>> /\ lastResp.total.kind = "bad"
    \/ \E i \in 1..Len(Flatten(received)) : Flatten(received)[i].content.kind = "null"

HardStatus == lastResp.kind = "http" /\ lastResp.status \notin {200, 400}

\* C6: a finished fetch returned None exactly when the last response had a
\* status other than 200 and 400 or an exception was raised, and then no
\* table is returned; otherwise it returned a table with one row per post of
\* the 200 pages received, in page order and in-page order, so a 400 on page
\* k > 1 gives the rows of pages 1..k-1 and a 400 or an empty page on page 1
\* gives an empty table.
C6_FetchResult ==
    FetchDone =>
        /\ fetchResult.status \in {"ok", "failed"}
        /\ fetchResult.status = "failed" <=> (HardStatus \/ FetchRaised)
        /\ fetchResult.status = "failed" => fetchResult.df.rows = <<>>
        /\ fetchResult.status = "ok" =>
              LET got == Flatten(received)
              IN  /\ Len(fetchResult.df.rows) = Len(got)
                  /\ \A i \in 1..Len(got) :
                        /\ fetchResult.df.rows[i].id = got[i].id
                        /\ fetchResult.df.rows[i].title = got[i].title
                        /\ fetchResult.df.rows[i].url = got[i].link
        /\ (lastResp.status = 400 /\ ~FetchRaised) =>
              /\ fetchResult.status = "ok"
              /\ Len(received) = Len(requested) - 1
        /\ (Len(requested) = 1 /\ lastResp.kind = "http"
              /\ (lastResp.status = 400
                     \/ (lastResp.status = 200 /\ lastResp.body.ok
                           /\ lastResp.body.posts = <<>>))) =>
              /\ fetchResult.status = "ok"
              /\ fetchResult.df.rows = <<>>

\* A 400 on page 2 after a page of two posts: a table of those two posts.
C6_Witness ==
    /\ FetchDone
    /\ requested = <<1, 2>>
    /\ lastResp.status = 400
    /\ fetchResult.status = "ok"
    /\ Len(fetchResult.df.rows) = 2
    /\ fetchResult.df.rows[1].id # fetchResult.df.rows[2].id

GenStarted == genResult # "none"
GenEnded == genResult \in {"returned", "raised"}

\* C2: every generation that ended returned a schedule, and the schedule has
\* exactly days x 3 rows, whatever table a successful fetch had stored.
C2_RowCount ==
    GenEnded =>
        /\ genResult = "returned"
        /\ Len(records) = genArgs.days * 3

\* The post of the table that entry i is assigned: post (i mod postCount),
\* entries and posts counted from 0.
AssignedPost(i) == genArgs.df.rows[((i - 1) % Len(genArgs.df.rows)) + 1]

\* C3: entry i (from 0, day-major, then the slots 09:00, 12:00, 20:00) of the
\* schedule carries the title and the URL of post (i mod postCount) of the
\* table in its fetched order, and the date and the time of its day and
\* slot, whatever the tone, the key and the outcomes of the API calls.
C3_CycleAssignment ==
    \A i \in 1..Len(records) :
        /\ records[i].title = AssignedPost(i).title
        /\ records[i].url = AssignedPost(i).url
        /\ records[i].datetime.day = (i - 1) \div 3
        /\ records[i].datetime.time = time_slots[((i - 1) % 3) + 1]

\* A returned two-day schedule over three posts: the cycle wraps inside day 2.
C3_Witness ==
    /\ genResult = "returned"
    /\ Len(records) = 6
    /\ Len(genArgs.df.rows) = 3
    /\ records[4].title = genArgs.df.rows[1].title
    /\ records[3].title # records[4].title

\* C4: without a generative-text key every entry's text is the assigned
\* post's title, a newline and its URL, and no API call is made.
C4_NoKeyText ==
    (GenStarted /\ genArgs.api_key = <<>>) =>
        /\ apiCalls = <<>>
        /\ \A i \in 1..Len(records) :
              records[i].text = AssignedPost(i).title \o <<"\n">> \o AssignedPost(i).url

\* A returned two-day schedule generated without a key.
C4_Witness ==
    /\ genResult = "returned"
    /\ genArgs.api_key = <<>>
    /\ Len(records) = 6
    /\ records[1].text # records[2].text

\* The parts of C10 that do not concern the text of a failed entry: with a
\* key, one API call was made per slot so far, for that slot's post; a failed
\* call leaves the entry its assigned post; generation is not aborted.
C10_Rest ==
    (GenStarted /\ genArgs.api_key # <<>>) =>
        /\ Len(apiCalls) = Len(records)
        /\ Len(apiOutcomes) = Len(records)
        /\ \A i \in 1..Len(records) :
              /\ apiCalls[i].title = AssignedPost(i).title
              /\ apiCalls[i].url = AssignedPost(i).url
              /\ records[i].title = AssignedPost(i).title
              /\ records[i].url = AssignedPost(i).url
        /\ (pc = "gen" /\ genArgs.df.rows # <<>>) => post_iter = Len(records) % Len(genArgs.df.rows)
        /\ (GenEnded /\ genArgs.df.rows # <<>>) =>
              /\ genResult = "returned"
              /\ Len(records) = genArgs.days * 3

\* C10 as stated: the entries whose call failed all carry one fixed
\* placeholder text.
C10_FixedPlaceholder ==
    /\ C10_Rest
    /\ (GenStarted /\ genArgs.api_key # <<>>) =>
          \A i, j \in 1..Len(records) :
              (apiOutcomes[i] = "fail" /\ apiOutcomes[j] = "fail") =>
                  records[i].text = records[j].text

\* C10 amended: the text of an entry whose call failed is the fixed error
\* marker followed by the title of its assigned post.
C10_MarkerAndTitle ==
    /\ C10_Rest
    /\ (GenStarted /\ genArgs.api_key # <<>>) =>
          \A i \in 1..Len(records) :
              apiOutcomes[i] = "fail" =>
                  records[i].text = ErrMarker \o AssignedPost(i).title

\* A returned schedule in which a failed call is followed by a successful one.
C10_Witness ==
    /\ genResult = "returned"
    /\ genArgs.api_key # <<>>
    /\ \E i, j \in 1..Len(records) :
          i < j /\ apiOutcomes[i] = "fail" /\ apiOutcomes[j] = "ok"
              /\ records[j].text # records[i].text

\* C5: once a page is loaded, the main application is shown exactly for the
\* well-formed tokens, whatever claims they hold, and the login screen for an
\* absent, empty or undecodable token.
C5_Gate ==
    screen # "none" =>
        /\ token.kind = "jwt" => screen = "main"
        /\ token.kind # "jwt" => screen = "login"

\* The text a worksheet cell must hold for the value of column j of row r.
Stringified(r, j, cell) ==
    CASE j = 1 -> ParseInt(cell) = r.id /\ Len(cell) = Len(IntToStr(r.id))
      [] j = 2 -> cell = r.title
      [] j = 3 -> cell = r.slug
      [] j = 4 -> cell = r.url
      [] j = 5 -> cell = r.status
      [] j = 6 -> cell = r.date
      [] j = 7 -> cell = r.modified
      [] j = 8 -> ParseInt(cell) = r.chars

\* C7: after write_to_sheets returned True the worksheet exists and holds
\* exactly a header row of the table's column names and one row per post, in
\* the table's order, each value as its text, and nothing else.
C7_RoundTrip ==
    (syncResult.called /\ syncResult.ret) =>
        LET df == syncResult.arg
        IN  /\ ws.exists
            /\ df.rows = <<>> => ws.cells = <<>>
            /\ df.rows # <<>> =>
                  /\ Len(ws.cells) = 1 + Len(df.rows)
                  /\ Len(ws.cells[1]) = Len(df.columns)
                  /\ \A j \in 1..Len(df.columns) : ws.cells[1][j] = <<df.columns[j]>>
                  /\ \A i \in 1..Len(df.rows) :
                        /\ Len(ws.cells[i + 1]) = Len(df.columns)
                        /\ \A j \in 1..Len(df.columns) :
                              Stringified(df.rows[i], j, ws.cells[i + 1][j])

\* A successful write of one post over a worksheet that held older content.
C7_Witness ==
    /\ syncResult.called
    /\ syncResult.ret
    /\ syncResult.before.cells = OldGrid
    /\ Len(syncResult.arg.rows) = 1

\* C9: write_to_sheets never raises and returns False on any failure; a
\* failure before the clear leaves the worksheet's content as it was, a
\* failed update after the clear leaves the worksheet empty, and only a
\* call without failure returns True.
C9_NoRollback ==
    syncResult.called =>
        LET f == syncResult.fault
            was == syncResult.before
            missing == ~was.exists
        IN  /\ ~syncResult.raised
            /\ f = "none" => syncResult.ret
            /\ f = "auth" => ~syncResult.ret /\ ws = was
            /\ (f = "lookup" /\ ~missing) => ~syncResult.ret /\ ws = was
            /\ (f = "add" /\ missing) => ~syncResult.ret /\ ws = was
            /\ f = "clear" => ~syncResult.ret /\ ws.cells = was.cells
            /\ f = "update" => ~syncResult.ret /\ ws.exists /\ ws.cells = <<>>
            /\ ~syncResult.ret => (ws.cells = was.cells \/ ws.cells = <<>>)

\* The update failed after the clear: older content is gone, the table's rows
\* were not written.
C9_Witness ==
    /\ syncResult.called
    /\ syncResult.fault = "update"
    /\ ~syncResult.ret
    /\ syncResult.before.cells = OldGrid
    /\ syncResult.arg.rows # <<>>
    /\ ws.cells = <<>>

\* C8: the session slot holds the table of the session's latest successful
\* fetch, or nothing when no fetch succeeded; sync and generation ran only
\* with a table in the slot and were given that table.
C8_SessionSlot ==
    /\ posts = lastOk
    /\ syncResult.called => (posts # <<>> /\ syncResult.arg = lastOk[1])
    /\ GenStarted => (posts # <<>> /\ genArgs.df = lastOk[1])
    /\ (FetchDone /\ fetchResult.status = "ok") => posts = <<fetchResult.df>>

\* A failed fetch after a successful one: the earlier table is still there.
C8_Witness ==
    /\ FetchDone
    /\ fetchResult.status = "failed"
    /\ posts # <<>>
    /\ posts[1].rows # <<>>

=============================================================================
